---- MODULE Spec2Model ----
(***************************************************************************)
(* A model of gpu_monitor.py: the sampler thread GPUMonitorThread.run with *)
(* its per-metric vendor queries, GPUMonitorThread.stop, the trend         *)
(* detector of GPUCard.update_data, the closing of the window with the     *)
(* exit of main(), and GPUMonitorWidget's report of its own memory.        *)
(*                                                                         *)
(* The vendor library (pynvml) and the alternate memory source (nvitop)    *)
(* are the environment: every call either raises or returns a value, and   *)
(* the model records what each call of the current cycle returned in resp. *)
(***************************************************************************)
EXTENDS Integers, Sequences, FiniteSets, TLC

VARIABLES
    USE_NVITOP_API,   \* module flag: nvitop.api.Device was imported
    pc,               \* position of the sampler thread inside run()
    running,          \* GPUMonitorThread.running
    session,          \* the NVML session: "none", "open" or "closed"
    shutdown_calls,   \* number of nvmlShutdown calls of this run
    init_calls,       \* number of nvmlInit calls of this run
    errors_printed,   \* number of times line 176 printed an error
    last_call,        \* the most recent vendor call of this run
    device_count,     \* local device_count of run()
    nvitop_devices,   \* local nvitop_devices of the current cycle
    gpu_list,         \* local gpu_list of the current cycle
    i,                \* loop variable of "for i in range(device_count)"
    gpu_info,         \* the GPUInfo being filled for device i
    emitted,          \* <<l>> once the current cycle passed l to gpu_data_updated.emit, else <<>>
    resp,             \* what each query of the current cycle returned, per device
    all_resp,         \* what Device.all() did in the current cycle
    faults,           \* non-nominal responses drawn so far in the current cycle
    temperature_history,  \* GPUCard.temperature_history
    base_temperature,     \* GPUCard.base_temperature
    is_animating,         \* GPUCard.is_animating
    card_temperature,     \* GPUCard.gpu_info.temperature
    window,           \* the main window: "open", "restarting" (start_monitoring
                      \* waits), "closing" (closeEvent waits) or "closed"
    exit_code,        \* <<c>> once main() called sys.exit(c), else <<>>
    HAS_PSUTIL,       \* module flag: psutil was imported
    process,          \* GPUMonitorWidget.process is not None
    mem_resp,         \* what the last call of process.memory_info() returned
    memory_mb,        \* what the last call of get_memory_usage() did
    status_memory,    \* the memory figure the status label was last built from
    status_gpus,      \* <<n>> while the status label shows "Detected n GPU(s)", else <<>>
    gpu_cards,        \* GPUMonitorWidget.gpu_cards
    delivered,        \* <<l>> once update_gpu_cards was called, l being its last argument
    monitor_thread,   \* GPUMonitorWidget.monitor_thread: 0 is None, k the k-th thread made
    memory_timer,     \* GPUMonitorWidget.memory_timer is active
    title_hide_timer, \* GPUMonitorWidget.title_hide_timer is active
    enumerable        \* the number of devices nvmlDeviceGetCount would report now

samplerVars == <<USE_NVITOP_API, pc, running, session, shutdown_calls, init_calls,
                 errors_printed, last_call, device_count, nvitop_devices, gpu_list,
                 i, gpu_info, emitted, resp, all_resp, faults>>
cardVars == <<temperature_history, base_temperature, is_animating, card_temperature>>
widgetVars == <<window, exit_code, HAS_PSUTIL, process, mem_resp, memory_mb,
                status_memory>>
panelVars == <<status_gpus, gpu_cards, delivered, monitor_thread, memory_timer,
               title_hide_timer>>
envVars == <<enumerable>>
vars == <<samplerVars, cardVars, widgetVars, panelVars, envVars>>

(***************************************************************************)
(* Bounds of the model.                                                    *)
(***************************************************************************)
\* nvmlDeviceGetCount returns 0..MaxDevices
MaxDevices == 2
\* nvmlDeviceGetNumFans returns 0..MaxFans
MaxFans == 2
\* at most this many vendor responses of one cycle are not the nominal one
MaxFaults == 2
\* the first MaxReadings readings of a card are followed degree by degree
MaxReadings == 5
\* the cards of the window are followed over their first MaxUpdates readings
MaxUpdates == 3
\* memory_info().rss is 0..MaxRss half megabytes, or a whole gigabyte
MaxRss == 40

(***************************************************************************)
(* Program constants.                                                      *)
(***************************************************************************)
\* 1024**2, the divisor of every byte count (lines 103, 104, 112, 113, 163)
MiB == 1048576
\* the divisor of the milliwatt readings (lines 123, 124)
MilliPerUnit == 1000
\* the history keeps the last 10 readings (line 397)
HistoryLen == 10
\* len(history) >= 2 before any trend is evaluated (line 401)
MinHistory == 2
\* the rise from the baseline that starts the animation (line 409)
RiseThreshold == 5
\* the single step that counts as a sudden change (lines 418, 434)
StepThreshold == 3
\* range(1, min(3, len(history))) (lines 412, 425)
TrendWindow == 3
\* from 1024 MB on the memory figure is shown in GB (lines 717, 758)
KiloMB == 1024

Min(a, b) == IF a < b THEN a ELSE b

(***************************************************************************)
(* The environment's answers.  A scalar answer is [st, v]: st is "ok" (the *)
(* call returned v), "fail" (it raised) or "none" (it was not called).     *)
(***************************************************************************)
NotCalled == [st |-> "none", v |-> 0]
Raised == [st |-> "fail", v |-> 0]
Returned(x) == [st |-> "ok", v |-> x]

NoMem == [st |-> "none", used |-> 0, total |-> 0]
NoName == [st |-> "none", bytes |-> FALSE, text |-> "", raw |-> <<>>]
NoUtil == [st |-> "none", gpu |-> 0, memory |-> 0]
NoProcs == [st |-> "none", v |-> <<>>]

\* the answers of one device in one cycle, before any call
NoResp ==
    [handle |-> "none", name |-> NoName, util |-> NoUtil, alt |-> NoMem,
     std |-> NoMem, temp |-> NotCalled, power_usage |-> NotCalled,
     power_limit |-> NotCalled, num_fans |-> NotCalled, fans |-> <<>>,
     legacy_fan |-> NotCalled, procs |-> NoProcs]

Devices == 0 .. (MaxDevices - 1)

\* nvmlDeviceGetName: the one-letter name of device d, returned as str (text) or
\* as bytes (raw, the UTF-8 code units)
NameAnswers(d) ==
    {[st |-> "ok", bytes |-> FALSE, raw |-> <<>>,
      text |-> IF d = 0 THEN "A" ELSE IF d = 1 THEN "B" ELSE "C"],
     [st |-> "ok", bytes |-> TRUE, text |-> "", raw |-> <<65 + Min(d, 2)>>],
     [st |-> "fail", bytes |-> FALSE, text |-> "", raw |-> <<>>]}
NameCost(r) == IF r.st = "ok" /\ ~r.bytes THEN 0 ELSE 1

\* nvmlDeviceGetUtilizationRates
UtilAnswers(d) ==
    {[st |-> "ok", gpu |-> 70 + d, memory |-> 20 + d], [st |-> "fail", gpu |-> 0, memory |-> 0]}

\* nvmlDeviceGetMemoryInfo, in bytes: a usual reading, and one with used > total
StdMemAnswers(d) ==
    {[st |-> "ok", used |-> (1 + d) * MiB + 7, total |-> 8 * MiB],
     [st |-> "ok", used |-> (9 + d) * MiB, total |-> 8 * MiB + 5],
     [st |-> "fail", used |-> 0, total |-> 0]}
MemCost(r) == IF r.st = "ok" /\ r.used <= r.total THEN 0 ELSE 1

\* nvitop Device.memory_info and the two reads of its result, in bytes:
\* "fail_info" memory_info() raised, "fail_used" the used figure could not be
\* converted, "fail_total" the total figure could not be converted
AltMemAnswers(d) ==
    {[st |-> "ok", used |-> (3 + d) * MiB + 1, total |-> 16 * MiB],
     [st |-> "ok", used |-> (20 + d) * MiB, total |-> 16 * MiB + 9]}
        \cup {[st |-> s, used |-> (3 + d) * MiB + 1, total |-> 16 * MiB] :
                 s \in {"fail_info", "fail_used", "fail_total"}}

\* nvmlDeviceGetTemperature
TempAnswers(d) == {Returned(40 + d), Raised}
\* nvmlDeviceGetPowerUsage, in milliwatts
PowerUsageAnswers(d) == {Returned((100 + d) * MilliPerUnit), Raised}
\* nvmlDeviceGetPowerManagementLimitConstraints(handle)[1], in milliwatts
PowerLimitAnswers(d) == {Returned(250 * MilliPerUnit), Raised}
\* nvmlDeviceGetNumFans
NumFansAnswers == {Returned(n) : n \in 0 .. MaxFans} \cup {Raised}
NumFansCost(r) == IF r.st = "ok" /\ r.v = MaxFans THEN 0 ELSE 1
\* nvmlDeviceGetFanSpeed_v2(handle, k)
FanV2Answers(d, k) == {Returned(50 + 10 * k + d), Raised}
\* nvmlDeviceGetFanSpeed(handle)
LegacyFanAnswers(d) == {Returned(30 + d), Returned(0), Raised}
LegacyCost(r) == IF r.st = "ok" /\ r.v > 0 THEN 0 ELSE 1
\* nvmlDeviceGetComputeRunningProcesses
ProcsAnswers(d) ==
    {[st |-> "ok", v |-> <<[pid |-> 100 + d, usedGpuMemory |-> 3 * MiB + 11]>>],
     [st |-> "fail", v |-> <<>>]}

\* the cost of an answer against MaxFaults: 0 for the nominal one, 1 otherwise
Cost(r) == IF r.st = "ok" THEN 0 ELSE 1
AltCost(r) == IF r.st = "ok" /\ r.used <= r.total THEN 0 ELSE 1

\* Device.all(): the device list (its length), one device short, or an exception
AllAnswers(n) ==
    {[st |-> "ok", len |-> n], [st |-> "fail", len |-> 0]}
        \cup (IF n > 0 THEN {[st |-> "ok", len |-> n - 1]} ELSE {})
AllCost(r, n) == IF r.st = "ok" /\ r.len = n THEN 0 ELSE 1
NoAll == [st |-> "none", len |-> 0]

\* the call log of the fan loop for fans k .. n-1 of device d: per fan the answer
\* of nvmlDeviceGetFanSpeed_v2 and, when that raised, of nvmlDeviceGetFanSpeed;
\* the log ends at the fan where the loop breaks
RECURSIVE FanLogs(_, _, _)
FanLogs(d, k, n) ==
    IF k >= n THEN {<<>>}
    ELSE LET rest == FanLogs(d, k + 1, n)
         IN  {<<[v2 |-> a, legacy |-> NotCalled]>> \o s :
                  a \in {x \in FanV2Answers(d, k) : x.st = "ok"}, s \in rest}
             \cup {<<[v2 |-> Raised, legacy |-> l]>> :
                      l \in {x \in LegacyFanAnswers(d) : x.st = "ok"}}
             \cup {<<[v2 |-> Raised, legacy |-> Raised]>> \o s : s \in rest}

\* the cost of a fan log: the raising per-fan queries of one device count once
\* (the per-fan interface is missing), every legacy answer on its own
RECURSIVE FanLogCost(_)
FanLogCost(log) ==
    IF log = <<>> THEN 0
    ELSE LET c == Head(log)
         IN  (IF c.v2.st = "fail" /\ \A k \in 2 .. Len(log) : log[k].v2.st # "fail"
              THEN 1 ELSE 0)
                 + (IF c.legacy.st = "none" THEN 0 ELSE LegacyCost(c.legacy))
                 + FanLogCost(Tail(log))

(***************************************************************************)
(* The program: class GPUInfo and the pure parts of GPUMonitorThread.run.  *)
(***************************************************************************)
\* GPUInfo.__init__
GPUInfo ==
    [index |-> 0, name |-> "", utilization_gpu |-> 0, utilization_memory |-> 0,
     memory_used |-> 0, memory_total |-> 0, temperature |-> 0, power_usage |-> 0,
     power_limit |-> 0, fan_speed |-> 0, fan_speeds |-> <<>>, processes |-> <<>>]

\* a variant of NewGPUInfo that forgets the assignment of line 85
NewGPUInfoNoIndex(d) == GPUInfo
\* lines 84-85: gpu_info = GPUInfo(); gpu_info.index = i
NewGPUInfo(d) == [GPUInfo EXCEPT !.index = d]

\* bytes.decode('utf-8') of a one-letter ASCII name
Utf8Decode(raw) ==
    IF raw = <<65>> THEN "A" ELSE IF raw = <<66>> THEN "B"
    ELSE IF raw = <<67>> THEN "C" ELSE "?"
\* name.decode('utf-8') if isinstance(name, bytes) else name
DecodeName(r) == IF r.bytes THEN Utf8Decode(r.raw) ELSE r.text

\* the condition of line 99
AltApplies(d) == USE_NVITOP_API /\ nvitop_devices.st = "ok" /\ d < nvitop_devices.len

\* a variant of TryAlt that sets vram_set right after the used figure
TryAltNoFallback(g, a) ==
    IF a.st \in {"fail_info", "fail_used"} THEN [g |-> g, vram_set |-> FALSE]
    ELSE IF a.st = "fail_total"
    THEN [g |-> [g EXCEPT !.memory_used = a.used \div MiB], vram_set |-> TRUE]
    ELSE [g |-> [g EXCEPT !.memory_used = a.used \div MiB,
                          !.memory_total = a.total \div MiB], vram_set |-> TRUE]
\* lines 100-107: the figures are assigned one after the other, and vram_set
\* only after both
TryAlt(g, a) ==
    IF a.st \in {"fail_info", "fail_used"} THEN [g |-> g, vram_set |-> FALSE]
    ELSE IF a.st = "fail_total"
    THEN [g |-> [g EXCEPT !.memory_used = a.used \div MiB], vram_set |-> FALSE]
    ELSE [g |-> [g EXCEPT !.memory_used = a.used \div MiB,
                          !.memory_total = a.total \div MiB], vram_set |-> TRUE]

\* lines 111-113
StdMemory(g, s) ==
    [g EXCEPT !.memory_used = s.used \div MiB, !.memory_total = s.total \div MiB]

\* a variant of Power that keeps the usage it read when the limit query raises
PowerKeepsUsage(g, u, l) ==
    IF u.st = "ok" /\ l.st = "ok"
    THEN [g EXCEPT !.power_usage = u.v \div MilliPerUnit,
                   !.power_limit = l.v \div MilliPerUnit]
    ELSE IF u.st = "ok"
    THEN [g EXCEPT !.power_usage = u.v \div MilliPerUnit, !.power_limit = 0]
    ELSE [g EXCEPT !.power_usage = 0, !.power_limit = 0]
\* lines 122-127; the readings are whole watts, so / 1000.0 is exact
Power(g, u, l) ==
    IF u.st = "ok" /\ l.st = "ok"
    THEN [g EXCEPT !.power_usage = u.v \div MilliPerUnit,
                   !.power_limit = l.v \div MilliPerUnit]
    ELSE [g EXCEPT !.power_usage = 0, !.power_limit = 0]

\* lines 134-146: the loop over the fans, on its call log
RECURSIVE FanLoop(_, _)
FanLoop(log, fan_speeds) ==
    IF log = <<>> THEN fan_speeds
    ELSE LET c == Head(log)
         IN  IF c.v2.st = "ok" THEN FanLoop(Tail(log), Append(fan_speeds, c.v2.v))
             ELSE IF c.legacy.st = "ok" THEN Append(fan_speeds, c.legacy.v)
             ELSE FanLoop(Tail(log), fan_speeds)

\* lines 147-148
MultiFan(g, fan_speeds) ==
    [g EXCEPT !.fan_speeds = IF fan_speeds # <<>> THEN fan_speeds ELSE <<0>>,
              !.fan_speed = IF fan_speeds # <<>> THEN fan_speeds[1] ELSE 0]
\* lines 151-152
LegacyOnly(g, v) ==
    [g EXCEPT !.fan_speed = v, !.fan_speeds = IF v > 0 THEN <<v>> ELSE <<>>]
\* lines 153-155
NoFan(g) == [g EXCEPT !.fan_speed = 0, !.fan_speeds = <<>>]

\* lines 160-166
Processes(procs) ==
    [k \in 1 .. Len(procs) |->
        [pid |-> procs[k].pid, used_memory |-> procs[k].usedGpuMemory \div MiB]]

(***************************************************************************)
(* The sampler thread: GPUMonitorThread.run, one action per step.          *)
(***************************************************************************)
\* what every step of the device loop leaves alone
LoopFrame ==
    UNCHANGED <<USE_NVITOP_API, running, session, shutdown_calls, init_calls,
                errors_printed, device_count, nvitop_devices, emitted, all_resp,
                cardVars, widgetVars, panelVars,
                   envVars>>

\* draw the answer a of cost c: within the cycle's budget of non-nominal answers
Draw(c) == faults + c <= MaxFaults /\ faults' = faults + c

\* lines 68-69: nvmlInit(), then nvmlDeviceGetCount()
NvmlInit ==
    /\ pc = "start"
    /\ init_calls' = init_calls + 1
    /\ \E init \in {"ok", "fail"} :
          IF init = "fail"
          THEN /\ pc' = "except"
               /\ last_call' = "nvmlInit"
               /\ UNCHANGED <<session, device_count>>
          ELSE /\ session' = "open"
               /\ last_call' = "nvmlDeviceGetCount"
               /\ \E c \in {Returned(n) : n \in 0 .. MaxDevices} \cup {Raised} :
                     IF c.st = "fail"
                     THEN pc' = "except" /\ UNCHANGED device_count
                     ELSE pc' = "while" /\ device_count' = c.v
    /\ UNCHANGED <<USE_NVITOP_API, running, shutdown_calls, errors_printed,
                   nvitop_devices, gpu_list, i, gpu_info, emitted, resp, all_resp,
                   faults, cardVars, widgetVars, panelVars,
                   envVars>>

\* a variant of LoopCondition: while True
LoopConditionIgnoresStop == TRUE
\* line 71: the condition of the while loop
LoopCondition == running

\* lines 71-80: the test of self.running and, in a new cycle, Device.all()
WhileRunning ==
    /\ pc = "while"
    /\ IF LoopCondition
       THEN /\ gpu_list' = <<>>
            /\ emitted' = <<>>
            /\ resp' = [d \in Devices |-> NoResp]
            /\ i' = 0
            /\ pc' = "for"
            /\ IF USE_NVITOP_API
               THEN \E a \in AllAnswers(device_count) :
                       /\ AllCost(a, device_count) <= MaxFaults
                       /\ faults' = AllCost(a, device_count)
                       /\ all_resp' = a
                       /\ nvitop_devices' = IF a.st = "ok" THEN a ELSE NoAll
                       /\ last_call' = "Device.all"
               ELSE /\ faults' = 0
                    /\ all_resp' = NoAll
                    /\ nvitop_devices' = NoAll
                    /\ UNCHANGED last_call
       ELSE /\ pc' = "finally"
            /\ UNCHANGED <<gpu_list, emitted, resp, i, faults, all_resp,
                           nvitop_devices, last_call>>
    /\ UNCHANGED <<USE_NVITOP_API, running, session, shutdown_calls, init_calls,
                   errors_printed, device_count, gpu_info, cardVars, widgetVars, panelVars,
                   envVars>>

\* lines 82-85: the next device, nvmlDeviceGetHandleByIndex(i) and a new GPUInfo
GetHandle ==
    /\ pc = "for" /\ i < device_count
    /\ last_call' = "nvmlDeviceGetHandleByIndex"
    /\ \E h \in {"ok", "fail"} :
          /\ Draw(IF h = "ok" THEN 0 ELSE 1)
          /\ resp' = [resp EXCEPT ![i].handle = h]
          /\ IF h = "fail"
             THEN pc' = "except" /\ UNCHANGED gpu_info
             ELSE pc' = "name" /\ gpu_info' = NewGPUInfo(i)
    /\ UNCHANGED <<gpu_list, i>>
    /\ LoopFrame

\* lines 88-89
GetName ==
    /\ pc = "name"
    /\ last_call' = "nvmlDeviceGetName"
    /\ \E a \in NameAnswers(i) :
          /\ Draw(NameCost(a))
          /\ resp' = [resp EXCEPT ![i].name = a]
          /\ IF a.st = "fail"
             THEN pc' = "except" /\ UNCHANGED gpu_info
             ELSE /\ pc' = "util"
                  /\ gpu_info' = [gpu_info EXCEPT !.name = DecodeName(a)]
    /\ UNCHANGED <<gpu_list, i>>
    /\ LoopFrame

\* lines 92-94
GetUtilization ==
    /\ pc = "util"
    /\ last_call' = "nvmlDeviceGetUtilizationRates"
    /\ \E a \in UtilAnswers(i) :
          /\ Draw(Cost(a))
          /\ resp' = [resp EXCEPT ![i].util = a]
          /\ IF a.st = "fail"
             THEN pc' = "except" /\ UNCHANGED gpu_info
             ELSE /\ pc' = "memory"
                  /\ gpu_info' = [gpu_info EXCEPT !.utilization_gpu = a.gpu,
                                                  !.utilization_memory = a.memory]
    /\ UNCHANGED <<gpu_list, i>>
    /\ LoopFrame

\* lines 98-113: the alternate source when line 99 allows it, then the
\* standard query unless vram_set
GetMemory ==
    /\ pc = "memory"
    /\ \E a \in (IF AltApplies(i) THEN AltMemAnswers(i) ELSE {NoMem}) :
          LET t == IF AltApplies(i) THEN TryAlt(gpu_info, a)
                   ELSE [g |-> gpu_info, vram_set |-> FALSE]
              ca == IF AltApplies(i) THEN AltCost(a) ELSE 0
          IN  IF t.vram_set
              THEN /\ Draw(ca)
                   /\ resp' = [resp EXCEPT ![i].alt = a]
                   /\ gpu_info' = t.g
                   /\ last_call' = "Device.memory_info"
                   /\ pc' = "temp"
              ELSE \E m \in StdMemAnswers(i) :
                      /\ Draw(ca + MemCost(m))
                      /\ resp' = [resp EXCEPT ![i].alt = a, ![i].std = m]
                      /\ last_call' = "nvmlDeviceGetMemoryInfo"
                      /\ IF m.st = "fail"
                         THEN pc' = "except" /\ gpu_info' = t.g
                         ELSE pc' = "temp" /\ gpu_info' = StdMemory(t.g, m)
    /\ UNCHANGED <<gpu_list, i>>
    /\ LoopFrame

\* lines 116-119
GetTemperature ==
    /\ pc = "temp"
    /\ last_call' = "nvmlDeviceGetTemperature"
    /\ \E a \in TempAnswers(i) :
          /\ Draw(Cost(a))
          /\ resp' = [resp EXCEPT ![i].temp = a]
          /\ gpu_info' = [gpu_info EXCEPT !.temperature = IF a.st = "ok" THEN a.v ELSE 0]
    /\ pc' = "power"
    /\ UNCHANGED <<gpu_list, i>>
    /\ LoopFrame

\* lines 122-127: the limit is queried only after the usage was read
GetPower ==
    /\ pc = "power"
    /\ \E u \in PowerUsageAnswers(i) :
          \E l \in (IF u.st = "ok" THEN PowerLimitAnswers(i) ELSE {NotCalled}) :
             /\ Draw(Cost(u) + (IF l.st = "fail" THEN 1 ELSE 0))
             /\ resp' = [resp EXCEPT ![i].power_usage = u, ![i].power_limit = l]
             /\ gpu_info' = Power(gpu_info, u, l)
             /\ last_call' = IF u.st = "ok"
                             THEN "nvmlDeviceGetPowerManagementLimitConstraints"
                             ELSE "nvmlDeviceGetPowerUsage"
    /\ pc' = "fan"
    /\ UNCHANGED <<gpu_list, i>>
    /\ LoopFrame

\* lines 130-155
GetFans ==
    /\ pc = "fan"
    /\ \E nf \in NumFansAnswers :
          IF nf.st = "ok"
          THEN \E log \in FanLogs(i, 0, nf.v) :
                  /\ Draw(NumFansCost(nf) + FanLogCost(log))
                  /\ resp' = [resp EXCEPT ![i].num_fans = nf, ![i].fans = log]
                  /\ gpu_info' = MultiFan(gpu_info, FanLoop(log, <<>>))
                  /\ last_call' = IF log = <<>> THEN "nvmlDeviceGetNumFans"
                                  ELSE IF log[Len(log)].legacy.st = "none"
                                  THEN "nvmlDeviceGetFanSpeed_v2"
                                  ELSE "nvmlDeviceGetFanSpeed"
          ELSE \E l \in LegacyFanAnswers(i) :
                  /\ Draw(NumFansCost(nf) + LegacyCost(l))
                  /\ resp' = [resp EXCEPT ![i].num_fans = nf, ![i].legacy_fan = l]
                  /\ gpu_info' = IF l.st = "ok" THEN LegacyOnly(gpu_info, l.v)
                                 ELSE NoFan(gpu_info)
                  /\ last_call' = "nvmlDeviceGetFanSpeed"
    /\ pc' = "procs"
    /\ UNCHANGED <<gpu_list, i>>
    /\ LoopFrame

\* lines 158-170: the process list, then gpu_list.append(gpu_info) and the
\* next i
GetProcesses ==
    /\ pc = "procs"
    /\ last_call' = "nvmlDeviceGetComputeRunningProcesses"
    /\ \E a \in ProcsAnswers(i) :
          /\ Draw(Cost(a))
          /\ resp' = [resp EXCEPT ![i].procs = a]
          /\ LET g == [gpu_info EXCEPT
                          !.processes = IF a.st = "ok" THEN Processes(a.v) ELSE <<>>]
             IN  gpu_info' = g /\ gpu_list' = Append(gpu_list, g)
    /\ i' = i + 1
    /\ pc' = "for"
    /\ LoopFrame

\* lines 172-173: the loop over the devices is over; emit, then sleep
Emit ==
    /\ pc = "for" /\ i >= device_count
    /\ emitted' = <<gpu_list>>
    /\ pc' = "sleep"
    /\ UNCHANGED <<USE_NVITOP_API, running, session, shutdown_calls, init_calls,
                   errors_printed, last_call, device_count, nvitop_devices, gpu_list,
                   i, gpu_info, resp, all_resp, faults, cardVars, widgetVars, panelVars,
                   envVars>>

\* line 173: time.sleep(self.update_interval) returns
Wake ==
    /\ pc = "sleep"
    /\ pc' = "while"
    /\ UNCHANGED <<USE_NVITOP_API, running, session, shutdown_calls, init_calls,
                   errors_printed, last_call, device_count, nvitop_devices, gpu_list,
                   i, gpu_info, emitted, resp, all_resp, faults, cardVars, widgetVars, panelVars,
                   envVars>>

\* a variant of Except that goes back to the loop after the report
ExceptResumesLoop ==
    /\ pc = "except"
    /\ errors_printed' = errors_printed + 1
    /\ pc' = "while"
    /\ UNCHANGED <<USE_NVITOP_API, running, session, shutdown_calls, init_calls,
                   last_call, device_count, nvitop_devices, gpu_list, i, gpu_info,
                   emitted, resp, all_resp, faults, cardVars, widgetVars, panelVars,
                   envVars>>
\* a variant of Except that emits what the cycle had built
ExceptEmitsPartial ==
    /\ pc = "except"
    /\ errors_printed' = errors_printed + 1
    /\ emitted' = <<gpu_list>>
    /\ pc' = "finally"
    /\ UNCHANGED <<USE_NVITOP_API, running, session, shutdown_calls, init_calls,
                   last_call, device_count, nvitop_devices, gpu_list, i, gpu_info,
                   resp, all_resp, faults, cardVars, widgetVars, panelVars,
                   envVars>>
\* lines 175-176
Except ==
    /\ pc = "except"
    /\ errors_printed' = errors_printed + 1
    /\ pc' = "finally"
    /\ UNCHANGED <<USE_NVITOP_API, running, session, shutdown_calls, init_calls,
                   last_call, device_count, nvitop_devices, gpu_list, i, gpu_info,
                   emitted, resp, all_resp, faults, cardVars, widgetVars, panelVars,
                   envVars>>

\* a variant of Finally that shuts down only when no error was caught
FinallyNoShutdownAfterError ==
    /\ pc = "finally"
    /\ pc' = "done"
    /\ IF errors_printed > 0
       THEN UNCHANGED <<shutdown_calls, last_call, session>>
       ELSE /\ shutdown_calls' = shutdown_calls + 1
            /\ last_call' = "nvmlShutdown"
            /\ \E a \in {"ok", "fail"} :
                  session' = IF a = "ok" THEN "closed" ELSE session
    /\ UNCHANGED <<USE_NVITOP_API, running, init_calls, errors_printed, device_count,
                   nvitop_devices, gpu_list, i, gpu_info, emitted, resp, all_resp,
                   faults, cardVars, widgetVars, panelVars,
                   envVars>>
\* a variant of Finally without the inner try: an exception of nvmlShutdown
\* leaves run(), which pc = "raised" stands for
FinallyPropagates ==
    /\ pc = "finally"
    /\ shutdown_calls' = shutdown_calls + 1
    /\ last_call' = "nvmlShutdown"
    /\ \E a \in {"ok", "fail"} :
          /\ session' = IF a = "ok" THEN "closed" ELSE session
          /\ pc' = IF a = "ok" THEN "done" ELSE "raised"
    /\ UNCHANGED <<USE_NVITOP_API, running, init_calls, errors_printed, device_count,
                   nvitop_devices, gpu_list, i, gpu_info, emitted, resp, all_resp,
                   faults, cardVars, widgetVars, panelVars,
                   envVars>>
\* lines 177-181: nvmlShutdown(), whose own exception is swallowed
Finally ==
    /\ pc = "finally"
    /\ pc' = "done"
    /\ shutdown_calls' = shutdown_calls + 1
    /\ last_call' = "nvmlShutdown"
    /\ \E a \in {"ok", "fail"} :
          session' = IF a = "ok" THEN "closed" ELSE session
    /\ UNCHANGED <<USE_NVITOP_API, running, init_calls, errors_printed, device_count,
                   nvitop_devices, gpu_list, i, gpu_info, emitted, resp, all_resp,
                   faults, cardVars, widgetVars, panelVars,
                   envVars>>

\* a variant of Stop that flips the flag
StopToggles ==
    /\ running' = ~running
    /\ UNCHANGED <<USE_NVITOP_API, pc, session, shutdown_calls, init_calls,
                   errors_printed, last_call, device_count, nvitop_devices, gpu_list,
                   i, gpu_info, emitted, resp, all_resp, faults, cardVars, widgetVars,
                   panelVars, envVars>>
\* lines 183-185: stop(), called from the GUI thread
Stop ==
    /\ running' = FALSE
    /\ UNCHANGED <<USE_NVITOP_API, pc, session, shutdown_calls, init_calls,
                   errors_printed, last_call, device_count, nvitop_devices, gpu_list,
                   i, gpu_info, emitted, resp, all_resp, faults, cardVars, widgetVars, panelVars,
                   envVars>>

\* the steps of the sampler thread
Run ==
    \/ NvmlInit \/ WhileRunning \/ GetHandle \/ GetName \/ GetUtilization
    \/ GetMemory \/ GetTemperature \/ GetPower \/ GetFans \/ GetProcesses
    \/ Emit \/ Wake \/ Except \/ Finally

\* a memory figure in MB: the exact quotient bytes / (1024 * 1024) of line 708,
\* as its whole part and the remaining bytes
MB(bytes) == [whole |-> bytes \div MiB, rem |-> bytes % MiB]
ZeroMB == MB(0)
\* get_memory_usage was not called yet
NoResult == [st |-> "none", mb |-> ZeroMB]

\* GPUMonitorWidget.__init__ (lines 594-608) and main() (lines 842-851): the
\* window is shown with no card, the first sampler thread and the memory timer
\* were started, the title timer was not, no memory figure was asked for yet
WidgetInit(has_psutil) ==
    /\ window = "open"
    /\ exit_code = <<>>
    /\ HAS_PSUTIL = has_psutil
    /\ process = has_psutil
    /\ mem_resp = NotCalled
    /\ memory_mb = NoResult
    /\ status_memory = <<>>
    /\ status_gpus = <<>>
    /\ gpu_cards = <<>>
    /\ delivered = <<>>
    /\ monitor_thread = 1
    /\ memory_timer = TRUE
    /\ title_hide_timer = FALSE

\* lines 60-63 and the module flags of lines 30-36; the card is not used
Init ==
    /\ USE_NVITOP_API \in BOOLEAN
    /\ pc = "start"
    /\ running = TRUE
    /\ session = "none"
    /\ shutdown_calls = 0
    /\ init_calls = 0
    /\ errors_printed = 0
    /\ last_call = "none"
    /\ device_count = 0
    /\ nvitop_devices = NoAll
    /\ gpu_list = <<>>
    /\ i = 0
    /\ gpu_info = GPUInfo
    /\ emitted = <<>>
    /\ resp = [d \in Devices |-> NoResp]
    /\ all_resp = NoAll
    /\ faults = 0
    /\ temperature_history = <<>>
    /\ base_temperature = 0
    /\ is_animating = FALSE
    /\ card_temperature = 0
    /\ WidgetInit(FALSE)
    /\ enumerable = 0

Next ==
    \/ NvmlInit \/ WhileRunning \/ GetHandle \/ GetName \/ GetUtilization
    \/ GetMemory \/ GetTemperature \/ GetPower \/ GetFans \/ GetProcesses
    \/ Emit \/ Wake \/ Except \/ Finally \/ Stop

Spec == Init /\ [][Next]_vars

\* the thread is scheduled, and every vendor call and the sleep return
FairSpec == Spec /\ WF_vars(Run)

(***************************************************************************)
(* The trend detector: GPUCard.__init__ and GPUCard.update_data.           *)
(***************************************************************************)
\* the temperatures a card is fed
Temps == {40, 43, 45}

\* a variant of AppendReading that drops the oldest entry one reading early
AppendReadingDropsEarly(history, t) ==
    LET h == Append(history, t)
    IN  IF Len(h) >= HistoryLen THEN Tail(h) ELSE h
\* lines 396-398: append, and drop the oldest beyond 10 entries
AppendReading(history, t) ==
    LET h == Append(history, t)
    IN  IF Len(h) > HistoryLen THEN Tail(h) ELSE h

\* lines 411-415: history[i] > history[i-1] for i in range(1, min(3, len(history)))
IsRising(history) ==
    \A k \in 1 .. (Min(TrendWindow, Len(history)) - 1) : history[k + 1] > history[k]
\* lines 424-428
IsFalling(history) ==
    \A k \in 1 .. (Min(TrendWindow, Len(history)) - 1) : history[k + 1] < history[k]

\* a variant of Trend that moves the baseline to every reading it evaluates
TrendResetsBaseline(h, base, animating, t) ==
    IF Len(h) >= MinHistory
    THEN LET temp_change == t - base
             single_change == t - h[Len(h) - 1]
         IN  IF ~animating
             THEN IF temp_change >= RiseThreshold
                       /\ (IsRising(h) \/ single_change >= StepThreshold)
                  THEN [is_animating |-> TRUE, base_temperature |-> t]
                  ELSE [is_animating |-> animating, base_temperature |-> t]
             ELSE IF (temp_change <= -RiseThreshold /\ IsFalling(h))
                       \/ single_change <= -StepThreshold
                  THEN [is_animating |-> FALSE, base_temperature |-> t]
                  ELSE [is_animating |-> animating, base_temperature |-> t]
    ELSE [is_animating |-> animating, base_temperature |-> base]
\* a variant of Trend that leaves the baseline where it was when the mode flips
TrendKeepsBaseline(h, base, animating, t) ==
    IF Len(h) >= MinHistory
    THEN LET temp_change == t - base
             single_change == t - h[Len(h) - 1]
         IN  IF ~animating
             THEN IF temp_change >= RiseThreshold
                       /\ (IsRising(h) \/ single_change >= StepThreshold)
                  THEN [is_animating |-> TRUE, base_temperature |-> base]
                  ELSE [is_animating |-> animating, base_temperature |-> base]
             ELSE IF (temp_change <= -RiseThreshold /\ IsFalling(h))
                       \/ single_change <= -StepThreshold
                  THEN [is_animating |-> FALSE, base_temperature |-> base]
                  ELSE [is_animating |-> animating, base_temperature |-> base]
    ELSE [is_animating |-> animating, base_temperature |-> base]
\* a variant of Trend that stops the animation on a sustained fall only
TrendSustainedExitOnly(h, base, animating, t) ==
    IF Len(h) >= MinHistory
    THEN LET temp_change == t - base
             single_change == t - h[Len(h) - 1]
         IN  IF ~animating
             THEN IF temp_change >= RiseThreshold
                       /\ (IsRising(h) \/ single_change >= StepThreshold)
                  THEN [is_animating |-> TRUE, base_temperature |-> t]
                  ELSE [is_animating |-> animating, base_temperature |-> base]
             ELSE IF temp_change <= -RiseThreshold /\ IsFalling(h)
                  THEN [is_animating |-> FALSE, base_temperature |-> t]
                  ELSE [is_animating |-> animating, base_temperature |-> base]
    ELSE [is_animating |-> animating, base_temperature |-> base]
\* a variant of Trend that starts the animation on a single step alone
TrendStepAlone(h, base, animating, t) ==
    IF Len(h) >= MinHistory
    THEN LET temp_change == t - base
             single_change == t - h[Len(h) - 1]
         IN  IF ~animating
             THEN IF (temp_change >= RiseThreshold /\ IsRising(h))
                       \/ single_change >= StepThreshold
                  THEN [is_animating |-> TRUE, base_temperature |-> t]
                  ELSE [is_animating |-> animating, base_temperature |-> base]
             ELSE IF (temp_change <= -RiseThreshold /\ IsFalling(h))
                       \/ single_change <= -StepThreshold
                  THEN [is_animating |-> FALSE, base_temperature |-> t]
                  ELSE [is_animating |-> animating, base_temperature |-> base]
    ELSE [is_animating |-> animating, base_temperature |-> base]
\* lines 401-436 on the history h that already holds the reading t: the new
\* is_animating and base_temperature
Trend(h, base, animating, t) ==
    IF Len(h) >= MinHistory
    THEN LET temp_change == t - base
             single_change == t - h[Len(h) - 1]
         IN  IF ~animating
             THEN IF temp_change >= RiseThreshold
                       /\ (IsRising(h) \/ single_change >= StepThreshold)
                  THEN [is_animating |-> TRUE, base_temperature |-> t]
                  ELSE [is_animating |-> animating, base_temperature |-> base]
             ELSE IF (temp_change <= -RiseThreshold /\ IsFalling(h))
                       \/ single_change <= -StepThreshold
                  THEN [is_animating |-> FALSE, base_temperature |-> t]
                  ELSE [is_animating |-> animating, base_temperature |-> base]
    ELSE [is_animating |-> animating, base_temperature |-> base]

\* GPUCard.update_data(gpu_info) with gpu_info.temperature = t (lines 391-436)
Update(t) ==
    LET h == AppendReading(temperature_history, t)
        r == Trend(h, base_temperature, is_animating, t)
    IN  /\ card_temperature' = t
        /\ temperature_history' = h
        /\ is_animating' = r.is_animating
        /\ base_temperature' = r.base_temperature
        /\ UNCHANGED <<samplerVars, widgetVars, panelVars, envVars>>

\* update_data on any snapshot
UpdateData == \E t \in Temps : Update(t)

\* the sampler before its thread ran; the value of every sampler variable
\* while only the card or the widget is exercised
SamplerIdle ==
    /\ USE_NVITOP_API = FALSE
    /\ pc = "start"
    /\ running = TRUE
    /\ session = "none"
    /\ shutdown_calls = 0
    /\ init_calls = 0
    /\ errors_printed = 0
    /\ last_call = "none"
    /\ device_count = 0
    /\ nvitop_devices = NoAll
    /\ gpu_list = <<>>
    /\ i = 0
    /\ gpu_info = GPUInfo
    /\ emitted = <<>>
    /\ resp = [d \in Devices |-> NoResp]
    /\ all_resp = NoAll
    /\ faults = 0

\* GPUCard.__init__ (lines 197-199) on a first snapshot; the sampler is not used
TrendInit ==
    /\ USE_NVITOP_API = FALSE
    /\ pc = "start"
    /\ running = TRUE
    /\ session = "none"
    /\ shutdown_calls = 0
    /\ init_calls = 0
    /\ errors_printed = 0
    /\ last_call = "none"
    /\ device_count = 0
    /\ nvitop_devices = NoAll
    /\ gpu_list = <<>>
    /\ i = 0
    /\ gpu_info = GPUInfo
    /\ emitted = <<>>
    /\ resp = [d \in Devices |-> NoResp]
    /\ all_resp = NoAll
    /\ faults = 0
    /\ temperature_history = <<>>
    /\ base_temperature \in Temps
    /\ is_animating = FALSE
    /\ card_temperature = base_temperature
    /\ WidgetInit(FALSE)
    /\ enumerable = 0

TrendNext == UpdateData

TrendSpec == TrendInit /\ [][TrendNext]_vars

(***************************************************************************)
(* The first readings of a card, in steps of one degree and more.          *)
(***************************************************************************)
\* the temperatures of the first snapshots
FirstTemps == {40, 41, 43, 44, 45, 46, 50}

\* update_data on one of the first MaxReadings snapshots of a card
FirstUpdate ==
    /\ Len(temperature_history) < MaxReadings
    /\ \E t \in FirstTemps : Update(t)

\* GPUCard.__init__ (lines 190-199) on a first snapshot
FirstInit ==
    /\ SamplerIdle
    /\ temperature_history = <<>>
    /\ base_temperature \in FirstTemps
    /\ is_animating = FALSE
    /\ card_temperature = base_temperature
    /\ WidgetInit(FALSE)
    /\ enumerable = 0

FirstNext == FirstUpdate

FirstSpec == FirstInit /\ [][FirstNext]_vars

(***************************************************************************)
(* The application: main(), the sampler thread and GPUMonitorWidget's      *)
(* closeEvent.                                                             *)
(***************************************************************************)
\* lines 830-834: closeEvent; a thread that still runs is told to stop and
\* waited for (isRunning() is false once run() has returned)
CloseEvent ==
    /\ window = "open"
    /\ IF pc # "done"
       THEN /\ running' = FALSE
            /\ window' = "closing"
            /\ UNCHANGED <<title_hide_timer, memory_timer>>
       ELSE /\ window' = "closed"
            /\ title_hide_timer' = FALSE
            /\ memory_timer' = FALSE
            /\ UNCHANGED running
    /\ UNCHANGED <<USE_NVITOP_API, pc, session, shutdown_calls, init_calls,
                   errors_printed, last_call, device_count, nvitop_devices, gpu_list,
                   i, gpu_info, emitted, resp, all_resp, faults, cardVars,
                   exit_code, HAS_PSUTIL, process, mem_resp, memory_mb, status_memory,
                   status_gpus, gpu_cards, delivered, monitor_thread, envVars>>

\* a variant of CloseAccepted that does not wait for the thread
CloseAcceptedNoWait ==
    /\ window = "closing"
    /\ window' = "closed"
    /\ title_hide_timer' = FALSE
    /\ memory_timer' = FALSE
    /\ UNCHANGED <<samplerVars, cardVars, exit_code, HAS_PSUTIL, process, mem_resp,
                   memory_mb, status_memory, status_gpus, gpu_cards, delivered,
                   monitor_thread, envVars>>
\* lines 834-839: wait() returns once run() has returned; the timers are
\* stopped and the event is accepted
CloseAccepted ==
    /\ window = "closing" /\ pc = "done"
    /\ window' = "closed"
    /\ title_hide_timer' = FALSE
    /\ memory_timer' = FALSE
    /\ UNCHANGED <<samplerVars, cardVars, exit_code, HAS_PSUTIL, process, mem_resp,
                   memory_mb, status_memory, status_gpus, gpu_cards, delivered,
                   monitor_thread, envVars>>

\* line 853: sys.exit(app.exec()); the event loop returns 0 once the last
\* window was closed, and nothing in the program asks it for another value
SysExit ==
    /\ window = "closed" /\ exit_code = <<>>
    /\ exit_code' = <<0>>
    /\ UNCHANGED <<samplerVars, cardVars, window, HAS_PSUTIL, process, mem_resp,
                   memory_mb, status_memory, panelVars, envVars>>

AppNext == Run \/ CloseEvent \/ CloseAccepted \/ SysExit

AppSpec == Init /\ [][AppNext]_vars

(***************************************************************************)
(* The self-memory reporter: get_memory_usage and update_memory_usage.     *)
(***************************************************************************)
\* the resident set sizes, in bytes
RssValues == {k * (MiB \div 2) : k \in 0 .. MaxRss} \cup {KiloMB * MiB}
\* process.memory_info() raises or returns an rss
MemoryInfoAnswers == {Raised} \cup {Returned(b) : b \in RssValues}

\* a variant of get_memory_usage without the try around memory_info()
get_memory_usage_unguarded(has_psutil, proc, a) ==
    IF has_psutil /\ proc
    THEN IF a.st = "ok"
         THEN [st |-> "ok", mb |-> MB(a.v)]
         ELSE [st |-> "raised", mb |-> ZeroMB]
    ELSE [st |-> "ok", mb |-> ZeroMB]
\* lines 703-711, a being what memory_info() does if it is called
get_memory_usage(has_psutil, proc, a) ==
    IF has_psutil /\ proc
    THEN IF a.st = "ok"
         THEN [st |-> "ok", mb |-> MB(a.v)]
         ELSE [st |-> "ok", mb |-> ZeroMB]
    ELSE [st |-> "ok", mb |-> ZeroMB]

\* memory_mb > 0
Positive(m) == m.whole > 0 \/ m.rem > 0

\* lines 713-730: the memory timer fired; status_memory is the figure and the
\* unit of the memory text, which is rewritten for a positive figure only
UpdateMemoryUsage ==
    /\ window = "open" /\ memory_timer
    /\ \E a \in (IF HAS_PSUTIL /\ process THEN MemoryInfoAnswers ELSE {NotCalled}) :
          LET r == get_memory_usage(HAS_PSUTIL, process, a)
          IN  /\ mem_resp' = a
              /\ memory_mb' = r
              /\ status_memory' =
                    IF r.st = "ok" /\ Positive(r.mb)
                    THEN <<[unit |-> IF r.mb.whole < KiloMB THEN "MB" ELSE "GB",
                            mb |-> r.mb]>>
                    ELSE status_memory
    /\ UNCHANGED <<samplerVars, cardVars, window, exit_code, HAS_PSUTIL, process,
                   panelVars, envVars>>

\* GPUMonitorWidget.__init__ with psutil imported or not (lines 12-16)
MemInit ==
    /\ SamplerIdle
    /\ temperature_history = <<>>
    /\ base_temperature = 0
    /\ is_animating = FALSE
    /\ card_temperature = 0
    /\ \E has_psutil \in BOOLEAN : WidgetInit(has_psutil)
    /\ enumerable = 0

MemNext == UpdateMemoryUsage

MemSpec == MemInit /\ [][MemNext]_vars

(***************************************************************************)
(* Restarting the sampler: GPUMonitorWidget.start_monitoring, called again *)
(* on a window that is open.                                               *)
(***************************************************************************)
\* start_monitoring is followed until MaxThreads threads were made
MaxThreads == 2

\* GPUMonitorThread() (lines 60-63) and start(): the sampler variables of the
\* thread that takes the place of the former one
NewThread ==
    /\ pc' = "start"
    /\ running' = TRUE
    /\ session' = "none"
    /\ shutdown_calls' = 0
    /\ init_calls' = 0
    /\ errors_printed' = 0
    /\ last_call' = "none"
    /\ device_count' = 0
    /\ nvitop_devices' = NoAll
    /\ gpu_list' = <<>>
    /\ i' = 0
    /\ gpu_info' = GPUInfo
    /\ emitted' = <<>>
    /\ resp' = [d \in Devices |-> NoResp]
    /\ all_resp' = NoAll
    /\ faults' = 0
    /\ monitor_thread' = monitor_thread + 1
    /\ UNCHANGED USE_NVITOP_API

\* line 701: the status label reads "Monitoring..."
MonitoringLabel == status_gpus' = <<>> /\ status_memory' = <<>>

\* a variant of StartMonitoring that does not wait for the thread it stopped
StartMonitoringNoWait ==
    /\ window = "open"
    /\ monitor_thread < MaxThreads
    /\ NewThread /\ MonitoringLabel
    /\ UNCHANGED <<cardVars, window, exit_code, HAS_PSUTIL, process, mem_resp,
                   memory_mb, gpu_cards, delivered, memory_timer,
                   title_hide_timer, envVars>>
\* lines 692-701: start_monitoring(); a thread that still runs is told to stop
\* and waited for, else the new thread is made at once
StartMonitoring ==
    /\ window = "open"
    /\ monitor_thread < MaxThreads
    /\ IF monitor_thread # 0 /\ pc # "done"
       THEN /\ running' = FALSE
            /\ window' = "restarting"
            /\ UNCHANGED <<USE_NVITOP_API, pc, session, shutdown_calls, init_calls,
                           errors_printed, last_call, device_count, nvitop_devices,
                           gpu_list, i, gpu_info, emitted, resp, all_resp, faults,
                           monitor_thread, status_gpus, status_memory>>
       ELSE NewThread /\ MonitoringLabel /\ UNCHANGED window
    /\ UNCHANGED <<cardVars, exit_code, HAS_PSUTIL, process, mem_resp, memory_mb,
                   gpu_cards, delivered, memory_timer, title_hide_timer, envVars>>

\* lines 696-701: wait() returns once run() has returned; the new thread is
\* made and started
StartThread ==
    /\ window = "restarting" /\ pc = "done"
    /\ window' = "open"
    /\ NewThread /\ MonitoringLabel
    /\ UNCHANGED <<cardVars, exit_code, HAS_PSUTIL, process, mem_resp, memory_mb,
                   gpu_cards, delivered, memory_timer, title_hide_timer, envVars>>

\* the steps of the sampler thread on a machine with at most one device
RestartRun == Run /\ device_count' <= 1

RestartNext ==
    \/ RestartRun \/ StartMonitoring \/ StartThread \/ UpdateMemoryUsage
    \/ CloseEvent \/ CloseAccepted

RestartSpec == Init /\ [][RestartNext]_vars

(***************************************************************************)
(* The consumer of the lists: GPUMonitorWidget.update_gpu_cards.  A card   *)
(* is [gpu_info, temperature_history, base_temperature, is_animating].     *)
(***************************************************************************)
\* the temperatures of the delivered snapshots
PanelTemps == {40, 45}
\* a list as run() builds it: entry k has index k - 1
ListOf(ts) == [k \in 1 .. Len(ts) |-> [NewGPUInfo(k - 1) EXCEPT !.temperature = ts[k]]]
\* the lists a sampler can emit
Lists == {ListOf(ts) : ts \in UNION {[1 .. n -> PanelTemps] : n \in 0 .. MaxDevices}}

\* GPUCard(g), lines 190-199
NewCard(g) ==
    [gpu_info |-> g, temperature_history |-> <<>>,
     base_temperature |-> g.temperature, is_animating |-> FALSE]
\* card.update_data(g), lines 391-436
UpdatedCard(card, g) ==
    LET h == AppendReading(card.temperature_history, g.temperature)
        r == Trend(h, card.base_temperature, card.is_animating, g.temperature)
    IN  [gpu_info |-> g, temperature_history |-> h,
         base_temperature |-> r.base_temperature, is_animating |-> r.is_animating]

\* a variant of Cards that keeps the cards it has and adds the missing ones
CardsKept(cards, l) ==
    [k \in 1 .. Len(l) |->
        IF k <= Len(cards) THEN UpdatedCard(cards[k], l[k]) ELSE NewCard(l[k])]
\* lines 735-751: the cards after the list l was delivered
Cards(cards, l) ==
    IF Len(cards) # Len(l)
    THEN [k \in 1 .. Len(l) |-> NewCard(l[k])]
    ELSE [k \in 1 .. Len(l) |-> UpdatedCard(cards[k], l[k])]

\* lines 732-762: update_gpu_cards(l), with the status label rebuilt from the
\* length of l and from get_memory_usage(); a card is followed over its first
\* MaxUpdates readings
UpdateGpuCards ==
    /\ window = "open"
    /\ \E l \in Lists :
          /\ Len(l) = Len(gpu_cards)
                => \A k \in 1 .. Len(gpu_cards) :
                      Len(gpu_cards[k].temperature_history) < MaxUpdates
          /\ delivered' = <<l>>
          /\ gpu_cards' = Cards(gpu_cards, l)
          /\ status_gpus' = <<Len(l)>>
    /\ \E a \in (IF HAS_PSUTIL /\ process THEN MemoryInfoAnswers ELSE {NotCalled}) :
          LET r == get_memory_usage(HAS_PSUTIL, process, a)
          IN  /\ mem_resp' = a
              /\ memory_mb' = r
              /\ status_memory' =
                    IF r.st = "ok" /\ Positive(r.mb)
                    THEN <<[unit |-> IF r.mb.whole < KiloMB THEN "MB" ELSE "GB",
                            mb |-> r.mb]>>
                    ELSE <<>>
    /\ UNCHANGED <<samplerVars, cardVars, window, exit_code, HAS_PSUTIL, process,
                   monitor_thread, memory_timer, title_hide_timer, envVars>>

\* GPUMonitorWidget.__init__: no card yet (line 594); psutil is not imported
PanelInit ==
    /\ SamplerIdle
    /\ temperature_history = <<>>
    /\ base_temperature = 0
    /\ is_animating = FALSE
    /\ card_temperature = 0
    /\ WidgetInit(FALSE)
    /\ enumerable = 0

PanelNext == UpdateGpuCards

PanelSpec == PanelInit /\ [][PanelNext]_vars

(***************************************************************************)
(* The sampler on a machine whose devices come and go: nvmlDeviceGetCount  *)
(* reports the devices present, and the handle of an absent one raises.    *)
(***************************************************************************)
\* lines 68-69: nvmlDeviceGetCount() returns the number of devices present
PlugNvmlInit == NvmlInit /\ (pc' = "while" => device_count' = enumerable)

\* line 88: nvmlDeviceGetHandleByIndex(i) raises for a device that is absent
PlugGetHandle == GetHandle /\ (i >= enumerable => pc' = "except")

\* a device is plugged in or removed between two cycles, while run() sleeps
Hotplug ==
    /\ pc = "sleep"
    /\ \E n \in 0 .. MaxDevices : n # enumerable /\ enumerable' = n
    /\ UNCHANGED <<samplerVars, cardVars, widgetVars, panelVars>>

\* lines 60-63, with any number of devices present
PlugInit ==
    /\ SamplerIdle
    /\ temperature_history = <<>>
    /\ base_temperature = 0
    /\ is_animating = FALSE
    /\ card_temperature = 0
    /\ WidgetInit(FALSE)
    /\ enumerable \in 0 .. MaxDevices

PlugNext ==
    \/ PlugNvmlInit \/ WhileRunning \/ PlugGetHandle \/ GetName \/ GetUtilization
    \/ GetMemory \/ GetTemperature \/ GetPower \/ GetFans \/ GetProcesses
    \/ Emit \/ Wake \/ Except \/ Finally \/ Stop \/ Hotplug

PlugSpec == PlugInit /\ [][PlugNext]_vars


(***************************************************************************)
(* The claims.  Built is the set of devices whose snapshot is in gpu_list; *)
(* resp[d] holds what the queries of that snapshot returned.               *)
(***************************************************************************)
Built == 0 .. (Len(gpu_list) - 1)
Snapshot(d) == gpu_list[d + 1]

\* some fan-speed query of the answers r returned a value
SomeV2Succeeded(r) == \E k \in 1 .. Len(r.fans) : r.fans[k].v2.st = "ok"
SomeLegacySucceeded(r) ==
    \/ r.legacy_fan.st = "ok"
    \/ \E k \in 1 .. Len(r.fans) : r.fans[k].legacy.st = "ok"
\* the per-fan readings that were returned, in fan order
V2Readings(r) ==
    LET ok == SelectSeq(r.fans, LAMBDA c : c.v2.st = "ok")
    IN  [k \in 1 .. Len(ok) |-> ok[k].v2.v]
\* the legacy readings that were returned
LegacyReadings(r) ==
    (IF r.legacy_fan.st = "ok" THEN {r.legacy_fan.v} ELSE {})
        \cup {r.fans[k].legacy.v : k \in {j \in 1 .. Len(r.fans) : r.fans[j].legacy.st = "ok"}}

\* the metric queries of device d that raised in the current cycle
FailedMetrics(d) ==
    LET r == resp[d]
    IN  (IF r.name.st = "fail" THEN {"name"} ELSE {})
        \cup (IF r.util.st = "fail" THEN {"utilization"} ELSE {})
        \cup (IF r.std.st = "fail" THEN {"memory"} ELSE {})
        \cup (IF r.temp.st = "fail" THEN {"temperature"} ELSE {})
        \cup (IF r.power_usage.st = "fail" \/ r.power_limit.st = "fail"
              THEN {"power"} ELSE {})
        \cup (IF r.num_fans.st = "fail" THEN {"fan count"} ELSE {})
        \cup (IF r.legacy_fan.st = "fail"
                 \/ \E k \in 1 .. Len(r.fans) :
                       r.fans[k].v2.st = "fail" \/ r.fans[k].legacy.st = "fail"
              THEN {"fan speed"} ELSE {})
        \cup (IF r.procs.st = "fail" THEN {"processes"} ELSE {})
CycleFailures == {f \in Devices \X {"name", "utilization", "memory", "temperature",
                                    "power", "fan count", "fan speed", "processes"} :
                     f[2] \in FailedMetrics(f[1])}
\* nothing but metric queries raised in the current cycle
OnlyMetricsFailed ==
    /\ all_resp.st # "fail"
    /\ \A d \in Devices : resp[d].handle # "fail" /\ resp[d].alt.st \in {"none", "ok"}

\* the snapshot g of device d holds what each query returned, and the default
\* of a metric whose query raised (the fan fields are left to C7, C8 and C9)
AsAnswered(g, d) ==
    LET r == resp[d]
    IN  /\ g.index = d
        /\ g.name = (IF r.name.st # "ok" THEN ""
                     ELSE IF r.name.bytes THEN Utf8Decode(r.name.raw) ELSE r.name.text)
        /\ g.utilization_gpu = (IF r.util.st = "ok" THEN r.util.gpu ELSE 0)
        /\ g.utilization_memory = (IF r.util.st = "ok" THEN r.util.memory ELSE 0)
        /\ g.memory_used = (IF r.alt.st = "ok" THEN r.alt.used \div MiB
                            ELSE IF r.std.st = "ok" THEN r.std.used \div MiB ELSE 0)
        /\ g.memory_total = (IF r.alt.st = "ok" THEN r.alt.total \div MiB
                             ELSE IF r.std.st = "ok" THEN r.std.total \div MiB ELSE 0)
        /\ g.temperature = (IF r.temp.st = "ok" THEN r.temp.v ELSE 0)
        /\ g.power_usage = (IF r.power_usage.st = "ok" /\ r.power_limit.st = "ok"
                            THEN r.power_usage.v \div MilliPerUnit ELSE 0)
        /\ g.power_limit = (IF r.power_usage.st = "ok" /\ r.power_limit.st = "ok"
                            THEN r.power_limit.v \div MilliPerUnit ELSE 0)
        /\ g.processes = (IF r.procs.st = "ok"
                          THEN [k \in 1 .. Len(r.procs.v) |->
                                   [pid |-> r.procs.v[k].pid,
                                    used_memory |-> r.procs.v[k].usedGpuMemory \div MiB]]
                          ELSE <<>>)

\* C1: when exactly one metric query of one device raised in a cycle, the cycle
\* is not aborted: it emits a list of device_count snapshots, each holding the
\* values its queries returned and the default only for the failed metric.
C1_SingleFailureIsolated ==
    (OnlyMetricsFailed /\ Cardinality(CycleFailures) = 1)
        => /\ pc \notin {"except", "finally", "done"}
           /\ emitted # <<>> =>
                 /\ Len(emitted[1]) = device_count
                 /\ \A d \in 0 .. (device_count - 1) : AsAnswered(emitted[1][d + 1], d)

\* C2: when a run that was told to stop has ended, nvmlShutdown was called
\* exactly once and is the last vendor call of the run, also when the last
\* cycle raised; before the end of the run it was not called at all.
C2_ShutdownOnceAtEnd ==
    /\ (pc = "done" /\ ~running) => (shutdown_calls = 1 /\ last_call = "nvmlShutdown")
    /\ pc # "done" => shutdown_calls = 0

\* C2 witness: stop() was called, a cycle that had read a device raised, and
\* the run has ended.
C2_Witness ==
    pc = "done" /\ ~running /\ errors_printed = 1 /\ Len(gpu_list) >= 1

\* C3: once stop() was called the run ends, with nvmlShutdown executed; the
\* test of the flag after stop() never starts a cycle, and once the loop was
\* left no cycle begins.
C3_StopTerminates ==
    /\ (~running) ~> (pc = "done" /\ shutdown_calls = 1)
    /\ [][(pc = "while" /\ ~running) => (pc' \in {"while", "finally"})]_vars
    /\ [][(pc \in {"finally", "done"}) => (pc' \in {"finally", "done"})]_vars

\* C3 witness: a run that emitted a list, was stopped and ended without error.
C3_Witness ==
    pc = "done" /\ ~running /\ errors_printed = 0 /\ emitted # <<>> /\ shutdown_calls = 1

\* C4: an emitted list has device_count entries, and entry i has index i.
C4_ListMatchesDeviceCount ==
    emitted # <<>> =>
        /\ Len(emitted[1]) = device_count
        /\ \A k \in 1 .. Len(emitted[1]) : emitted[1][k].index = k - 1

\* C4 witness: a list of two or more snapshots was emitted.
C4_Witness == emitted # <<>> /\ Len(emitted[1]) >= 2

\* C5: in every emitted snapshot memory_used <= memory_total when
\* memory_total > 0.
C5_UsedAtMostTotal ==
    emitted # <<>> =>
        \A k \in 1 .. Len(emitted[1]) :
           emitted[1][k].memory_total > 0
               => emitted[1][k].memory_used <= emitted[1][k].memory_total

\* C6: the two memory figures of a snapshot are those of the alternate source
\* when it is present, its device list was obtained, the index is in the list
\* and its read completed; otherwise both are those of the standard query.
C6_MemoryFromOneSource ==
    \A d \in Built :
       LET r == resp[d]
           g == Snapshot(d)
       IN  IF USE_NVITOP_API /\ all_resp.st = "ok" /\ d < all_resp.len /\ r.alt.st = "ok"
           THEN /\ g.memory_used = r.alt.used \div MiB
                /\ g.memory_total = r.alt.total \div MiB
           ELSE /\ r.std.st = "ok"
                /\ g.memory_used = r.std.used \div MiB
                /\ g.memory_total = r.std.total \div MiB

\* C6 witness: a snapshot was built after the alternate read raised part-way,
\* with the used figure already assigned.
C6_Witness == \E d \in Built : resp[d].alt.st = "fail_total"

\* C7: the fan speed list is empty when no fan-speed query returned a value.
C7_NoReadingIsEmpty ==
    \A d \in Built :
       (~SomeV2Succeeded(resp[d]) /\ ~SomeLegacySucceeded(resp[d]))
           => Snapshot(d).fan_speeds = <<>>

\* C8: when the multi-fan interface is unavailable (the fan count query or a
\* per-fan query raised, and no per-fan query returned) and the legacy query
\* returned v, the fan speed list is <<v>>.
C8_LegacyOnlyIsSingleton ==
    \A d \in Built :
       LET r == resp[d]
       IN  (~SomeV2Succeeded(r) /\ SomeLegacySucceeded(r))
               => \E v \in LegacyReadings(r) : Snapshot(d).fan_speeds = <<v>>

\* C9: when a per-fan query returned a value, the fan speed list holds the
\* per-fan readings in fan order and nothing else.
C9_OnlyPerFanReadings ==
    \A d \in Built :
       SomeV2Succeeded(resp[d]) => Snapshot(d).fan_speeds = V2Readings(resp[d])

\* the last up-to-3 entries of h are strictly increasing
LastRising(h) ==
    \A k \in (Len(h) - Min(TrendWindow, Len(h)) + 1) .. (Len(h) - 1) : h[k + 1] > h[k]

\* C10: an update of a card that is not animating, with 2 or more readings in
\* the history after the append, starts the animation exactly when the new
\* reading t is 5 or more above the baseline and the last up-to-3 readings are
\* strictly increasing or t is 3 or more above the previous reading; the
\* baseline then becomes t.
C10_EntersOnLastThree ==
    [][(~is_animating /\ Len(temperature_history') >= MinHistory)
          => LET h == temperature_history'
                 t == h[Len(h)]
             IN  /\ is_animating'
                        <=> /\ t - base_temperature >= RiseThreshold
                            /\ (LastRising(h) \/ t - h[Len(h) - 1] >= StepThreshold)
                 /\ is_animating' => base_temperature' = t]_vars

\* the last up-to-3 entries of h are strictly decreasing
LastFalling(h) ==
    \A k \in (Len(h) - Min(TrendWindow, Len(h)) + 1) .. (Len(h) - 1) : h[k + 1] < h[k]

\* C11: an update of an animating card, with 2 or more readings in the history
\* after the append, stops the animation exactly when the new reading t is 5
\* or more below the baseline and the last up-to-3 readings are strictly
\* decreasing, or t is 3 or more below the previous reading; the baseline then
\* becomes t.
C11_ExitsOnLastThree ==
    [][(is_animating /\ Len(temperature_history') >= MinHistory)
          => LET h == temperature_history'
                 t == h[Len(h)]
             IN  /\ ~is_animating'
                        <=> \/ /\ t - base_temperature <= -RiseThreshold
                                /\ LastFalling(h)
                            \/ t - h[Len(h) - 1] <= -StepThreshold
                 /\ ~is_animating' => base_temperature' = t]_vars

\* the readings of the ramp, up to the one that starts the animation
Ramp == <<40, 41, 43, 46>>

\* C12: a card created at 40 with an empty history and fed 40, 41, 43, 46 is
\* not animating, with baseline 40, after each of 40, 41 and 43, and is
\* animating with baseline 46 after 46.
C12_RampEntersAt46 ==
    [][\A n \in 1 .. Len(Ramp) :
          (/\ temperature_history = SubSeq(Ramp, 1, n - 1)
           /\ temperature_history' = SubSeq(Ramp, 1, n)
           /\ ~is_animating
           /\ base_temperature = Ramp[1])
             => IF n < Len(Ramp)
                THEN ~is_animating' /\ base_temperature' = Ramp[1]
                ELSE is_animating' /\ base_temperature' = Ramp[n]]_vars
\* the ramp was fed and the animation runs from 46
C12_Witness ==
    /\ temperature_history = Ramp
    /\ is_animating
    /\ base_temperature = Ramp[Len(Ramp)]

\* the readings of the descent: the last reading of the rise and the two after
Descent == <<46, 44, 41>>

\* C13: an animating card with baseline 46 whose last reading is 46 is still
\* animating, with baseline 46, after 44, and then stops at 41 with baseline 41.
C13_DescentExitsAt41 ==
    [][LET h == temperature_history
           n == Len(h)
       IN  /\ (/\ is_animating /\ base_temperature = Descent[1]
                /\ n >= 1 /\ h[n] = Descent[1]
                /\ temperature_history' # h /\ card_temperature' = Descent[2])
                  => (is_animating' /\ base_temperature' = Descent[1])
           /\ (/\ is_animating /\ base_temperature = Descent[1]
                /\ n >= 2 /\ h[n - 1] = Descent[1] /\ h[n] = Descent[2]
                /\ temperature_history' # h /\ card_temperature' = Descent[3])
                  => (~is_animating' /\ base_temperature' = Descent[3])]_vars
\* the animation that ran from 46 stopped at 41 after 46, 44, 41
C13_Witness ==
    LET h == temperature_history
        n == Len(h)
    IN  /\ n >= 3
        /\ SubSeq(h, n - 2, n) = Descent
        /\ ~is_animating
        /\ base_temperature = Descent[3]

\* the single jump of the claim: 40, then 44
Jump == <<40, 44>>

\* C14, as stated: a card created at 40 and fed 40 then 44 is animating after 44.
C14_JumpOf4Enters ==
    [][(/\ temperature_history = <<Jump[1]>>
        /\ temperature_history' = Jump
        /\ ~is_animating
        /\ base_temperature = Jump[1])
          => is_animating']_vars

\* C14, amended: a card created at 40 and fed 40 then t is animating after t
\* exactly when t is 5 or more above the baseline 40, although fewer than 3
\* readings exist; 44 does not start the animation.
C14_JumpEntersFrom5 ==
    [][(/\ temperature_history = <<Jump[1]>>
        /\ Len(temperature_history') = Len(Jump)
        /\ ~is_animating
        /\ base_temperature = Jump[1])
          => (is_animating' <=> card_temperature' - Jump[1] >= RiseThreshold)]_vars
\* a jump from 40 to 45 started the animation on the second reading
C14_Witness ==
    /\ temperature_history = <<Jump[1], Jump[1] + RiseThreshold>>
    /\ is_animating
    /\ base_temperature = Jump[1] + RiseThreshold

\* C15: the history never holds more than 10 readings, and every update_data
\* appends its reading at the end, dropping the oldest entry, and only that
\* one, when 10 readings were already held; so the history is, in order, the
\* most recent min(k, 10) readings after k calls.
C15_HistoryIsLastTen ==
    /\ [](Len(temperature_history) <= HistoryLen)
    /\ [][LET h == temperature_history
           IN  temperature_history'
                  = Append(IF Len(h) < HistoryLen THEN h ELSE Tail(h),
                           card_temperature')]_vars
\* ten readings of 45 on an animating card: the animation starts at a 45 that
\* follows a lower reading, which was dropped from the history since
C15_Witness ==
    /\ is_animating
    /\ Len(temperature_history) = HistoryLen
    /\ \A k \in 1 .. HistoryLen : temperature_history[k] = 45

\* nvmlInit was called and opened no session: it raised
InitFailed == init_calls = 1 /\ session = "none"

\* C16: after nvmlInit raised, the run is in its except or finally block or
\* has ended; no other vendor call than nvmlShutdown follows, so no device
\* count and no device is read, nothing is built or emitted, and the error is
\* printed once.
C16_InitFailureSkipsLoop ==
    InitFailed =>
        /\ pc \in {"except", "finally", "done"}
        /\ last_call \in {"nvmlInit", "nvmlShutdown"}
        /\ device_count = 0
        /\ gpu_list = <<>> /\ emitted = <<>>
        /\ all_resp = NoAll /\ \A d \in Devices : resp[d] = NoResp
        /\ errors_printed = IF pc = "except" THEN 0 ELSE 1
\* C16 witness: a run whose nvmlInit raised has ended
C16_Witness == InitFailed /\ pc = "done" /\ errors_printed = 1

\* C17: a process whose nvmlInit raised ends with a non-zero exit code, and a
\* process closed without such a failure ends with 0.
C17_InitFailureIsFatal ==
    exit_code # <<>> =>
        IF InitFailed THEN exit_code[1] # 0 ELSE exit_code[1] = 0

\* a query of the current cycle outside every inner try raised
CycleRaised ==
    \E d \in Devices :
       \/ resp[d].handle = "fail"
       \/ resp[d].name.st = "fail"
       \/ resp[d].util.st = "fail"
       \/ resp[d].std.st = "fail"

\* C18: after a query of a cycle raised outside every inner try, the run is in
\* its except or finally block or has ended, the list of that cycle is not
\* emitted, and a run that has ended printed the error once and called
\* nvmlShutdown once; once the loop was left, no cycle starts and nothing is
\* emitted.
C18_CycleFailureEndsLoop ==
    /\ [](CycleRaised =>
             /\ pc \in {"except", "finally", "done"}
             /\ emitted = <<>>
             /\ pc = "done" => (errors_printed = 1 /\ shutdown_calls = 1))
    /\ [][(pc \in {"except", "finally", "done"})
             => (pc' \in {"except", "finally", "done"} /\ emitted' = emitted)]_vars
\* C18 witness: a cycle raised after it had built a snapshot, and the run ended
C18_Witness ==
    CycleRaised /\ pc = "done" /\ Len(gpu_list) >= 1 /\ shutdown_calls = 1

\* C19: every run that has ended called nvmlShutdown, as its last vendor
\* call, also when nvmlInit had raised; and no exception leaves run(), also
\* when nvmlShutdown raises.
C19_ShutdownOnEveryPath ==
    /\ pc # "raised"
    /\ pc = "done" => (shutdown_calls = 1 /\ last_call = "nvmlShutdown")
\* C19 witness: nvmlShutdown raised after a cycle had raised (the session
\* stayed open), and the run ended
C19_Witness ==
    pc = "done" /\ session = "open" /\ errors_printed = 1 /\ shutdown_calls = 1

\* C20: get_memory_usage never raises; without psutil it returns 0 and asks
\* nothing; with psutil it returns 0 when memory_info() raised and else
\* rss / (1024 * 1024).
C20_MemoryReporter ==
    memory_mb.st # "none" =>
        /\ memory_mb.st = "ok"
        /\ ~HAS_PSUTIL => (memory_mb.mb = ZeroMB /\ mem_resp = NotCalled)
        /\ (HAS_PSUTIL /\ mem_resp.st = "fail") => memory_mb.mb = ZeroMB
        /\ (HAS_PSUTIL /\ mem_resp.st = "ok")
              => /\ memory_mb.mb.whole * MiB + memory_mb.mb.rem = mem_resp.v
                 /\ memory_mb.mb.rem \in 0 .. (MiB - 1)
        /\ HAS_PSUTIL => mem_resp.st # "none"
\* C20 witness: with psutil, a query raised after an earlier one had returned
\* a figure that is still shown
C20_Witness ==
    /\ HAS_PSUTIL
    /\ mem_resp.st = "fail"
    /\ memory_mb = [st |-> "ok", mb |-> ZeroMB]
    /\ status_memory # <<>>

\* C21: the list a cycle emits has as many snapshots as devices are present
\* in that cycle, also when devices came or went since the cycle before.
C21_CountReadEveryCycle ==
    [][(emitted = <<>> /\ emitted' # <<>>) => Len(emitted'[1]) = enumerable]_vars

\* C22: after update_gpu_cards(l) there are as many cards as l has snapshots
\* and card k holds snapshot k; when l is not as long as the cards were, every
\* card is a fresh one, with an empty history, not animating and with the
\* temperature of its snapshot as baseline; when the lengths agree, card k is
\* the former card k after update_data on snapshot k.
C22_CardsFollowList ==
    [][(delivered' # delivered \/ gpu_cards' # gpu_cards)
          => LET l == delivered'[1]
             IN  /\ Len(gpu_cards') = Len(l)
                 /\ \A k \in 1 .. Len(l) :
                       LET card == gpu_cards'[k]
                       IN  /\ card.gpu_info = l[k]
                           /\ IF Len(gpu_cards) # Len(l)
                              THEN /\ card.temperature_history = <<>>
                                   /\ ~card.is_animating
                                   /\ card.base_temperature = l[k].temperature
                              ELSE card = UpdatedCard(gpu_cards[k], l[k])]_vars
\* C22 witness: of two cards the first is animating after three lists of two
\* snapshots, and the second is not
C22_Witness ==
    /\ Len(gpu_cards) = 2
    /\ gpu_cards[1].is_animating /\ ~gpu_cards[2].is_animating
    /\ Len(gpu_cards[2].temperature_history) = 2
    /\ delivered # <<>> /\ Len(delivered[1]) = 2

\* the calls of nvmlDeviceGetFanSpeed for one device in the current cycle
LegacyAttempts(r) ==
    (IF r.legacy_fan.st # "none" THEN 1 ELSE 0)
        + Cardinality({k \in 1 .. Len(r.fans) : r.fans[k].legacy.st # "none"})

\* C23: in one cycle the legacy fan query of a device is called at most once
\* (every other query of a device has one call site, outside any loop).
C23_NoQueryRetried ==
    \A d \in Devices : LegacyAttempts(resp[d]) <= 1

\* a step that calls the vendor library
VendorCall ==
    \/ init_calls' > init_calls
    \/ shutdown_calls' > shutdown_calls
    \/ (last_call' # last_call /\ last_call' # "none")

\* C24: a new sampler thread is made only when there was none or the former
\* one has returned from run(), its nvmlShutdown called, so no two threads
\* are between nvmlInit and nvmlShutdown; and every step that calls the
\* vendor library is a step of run().
C24_OneSessionOwner ==
    /\ [][(monitor_thread' # monitor_thread)
             => (monitor_thread = 0 \/ (pc = "done" /\ shutdown_calls = 1))]_vars
    /\ [][VendorCall => Run]_vars
\* C24 witness: the second thread, made by start_monitoring on the open
\* window, holds the session and reads its devices
C24_Witness ==
    monitor_thread = 2 /\ session = "open" /\ pc = "for" /\ window = "open"

\* C25: while closeEvent waits, the thread was told to stop; once the close
\* was accepted, run() has returned, nvmlShutdown was called, and neither
\* timer is active.
C25_CloseWaitsForSampler ==
    /\ window = "closing" => ~running
    /\ window = "closed"
          => /\ pc = "done" /\ shutdown_calls = 1 /\ last_call = "nvmlShutdown"
             /\ ~memory_timer /\ ~title_hide_timer
\* C25 witness: the window was closed while the thread ran a cycle; the
\* thread was stopped, ended its session, and the close was accepted
C25_Witness ==
    /\ window = "closed" /\ ~running
    /\ pc = "done" /\ session = "closed" /\ Len(gpu_list) >= 1

\* the sampler was stopped and has neither emitted a list nor built a snapshot:
\* it is before nvmlInit, at the test of the flag, or past the loop
NeverSampled ==
    /\ ~running
    /\ emitted = <<>> /\ gpu_list = <<>>
    /\ pc \in {"start", "while", "except", "finally", "done"}

\* C26: once stop() was called, the list of the current cycle is the only
\* one that can still be emitted: emitted changes no more once it holds a
\* list; a sampler stopped before its first test of the flag never emits and
\* never builds a snapshot, and has called nvmlInit and nvmlShutdown once each
\* when its run has ended; and the flag is never set back.
C26_AtMostOneListAfterStop ==
    /\ [][(~running /\ emitted # <<>>) => emitted' = emitted]_vars
    /\ [][NeverSampled => NeverSampled']_vars
    /\ [](NeverSampled /\ pc = "done" => init_calls = 1 /\ shutdown_calls = 1)
    /\ [][~running => ~running']_vars
\* C26 witness: a machine with a device, a run that ended without an error
\* and without a list: it was stopped before the first test of the flag
C26_Witness ==
    /\ NeverSampled /\ pc = "done"
    /\ device_count >= 1 /\ errors_printed = 0 /\ session = "closed"

\* C27: an update that flips is_animating sets the baseline to its reading;
\* an update that does not, leaves the baseline; an update that leaves fewer
\* than 2 readings in the history flips nothing.
C27_BaselineMovesOnFlip ==
    [][/\ is_animating' # is_animating => base_temperature' = card_temperature'
       /\ is_animating' = is_animating => base_temperature' = base_temperature
       /\ Len(temperature_history') < MinHistory
             => (is_animating' = is_animating
                 /\ base_temperature' = base_temperature)]_vars
\* C27 witness: the animation started at 45, and the reading 43 after it
\* left the baseline at 45
C27_Witness ==
    /\ is_animating
    /\ base_temperature = 45 /\ card_temperature = 43
    /\ Len(temperature_history) >= MinHistory

\* C28: in an emitted snapshot both power fields are 0 when the usage query
\* or the limit query raised, and a power usage other than 0 means that both
\* returned.
C28_PowerBothOrNone ==
    emitted # <<>> =>
        \A k \in 1 .. Len(emitted[1]) :
           LET g == emitted[1][k]
               r == resp[k - 1]
           IN  /\ (r.power_usage.st = "fail" \/ r.power_limit.st = "fail")
                      => (g.power_usage = 0 /\ g.power_limit = 0)
               /\ g.power_usage # 0
                      => (r.power_usage.st = "ok" /\ r.power_limit.st = "ok")
\* C28 witness: an emitted snapshot whose usage query returned and whose limit
\* query raised, next to one with both readings
C28_Witness ==
    /\ emitted # <<>> /\ Len(emitted[1]) >= 2
    /\ \E k \in 1 .. Len(emitted[1]) :
          /\ resp[k - 1].power_usage.st = "ok" /\ resp[k - 1].power_limit.st = "fail"
          /\ emitted[1][k].power_usage = 0
    /\ \E k \in 1 .. Len(emitted[1]) : emitted[1][k].power_usage # 0

====
